---- MODULE Spec2Model ----
(***************************************************************************)
(* Model of the instance-based contract execution engine of                *)
(* ledger/byzcoin/contract/task.go: the server task that consumes a spawn, *)
(* invoke or delete client task against an inventory page, the contract    *)
(* registry of the task factory and the access control gate.               *)
(*                                                                         *)
(* One step of the model is one whole call of serverTask.Consume (the      *)
(* engine is synchronous and tasks are applied one at a time), one call of *)
(* TaskFactory.Register, or one change of an access control by the         *)
(* surrounding ledger.  The calls made to the collaborators during the     *)
(* last Consume are recorded, in order, in last.calls.                     *)
(***************************************************************************)
EXTENDS Integers, Sequences, FiniteSets, TLC

VARIABLES
    page,       \* the inventory page: a partial map from key to Instance
    contracts,  \* TaskFactory.contracts / serverTask.contracts
    arcs,       \* the access controls reachable through the page
    fault,      \* the failure the storage has in store for the next Consume
    last        \* outcome of the last operation (history)

vars == <<page, contracts, arcs, fault, last>>

----------------------------------------------------------------------------
(* Bounds and the finite universe of inputs                                *)

MaxArg == 1
MaxValue == 1

Keys == {"k1", "k2"}
ContractIDs == {"c1", "c2"}
Identities == {"I1", "I2"}
ArcIDs == {"A0", "A1"}
Arguments == 0..MaxArg
Values == 0..MaxValue

\* the nil contract (no entry in the map, or a nil interface value)
Nil == "nil"
\* the two contract implementations that can be registered
Impls == {"X", "Y"}
\* the nil error
NoErr == "nil"
\* an access control identifier that does not resolve
Missing == "missing"
Policies == {"open", "owner"}
\* the policy each access control identifier names when it resolves
PolicyOf(a) == IF a = "A0" THEN "open" ELSE "owner"

----------------------------------------------------------------------------
(* Collaborators                                                           *)

\* arc.Compile: the rule of an action of a contract.
Compile(contractID, action) == <<contractID, action>>

\* AccessControl.Match for the two policies of the model: "open" accepts
\* every identity for every rule, "owner" accepts I1 for the rules of c1 and
\* anybody for the spawn of c2, and refuses the rest.
OwnerRules ==
    { <<Compile("c1", "spawn"), "I1">>, <<Compile("c1", "invoke"), "I1">>,
      <<Compile("c2", "spawn"), "I1">>, <<Compile("c2", "spawn"), "I2">> }

Match(policy, rule, identity) ==
    IF policy = "open" \/ <<rule, identity>> \in OwnerRules
    THEN NoErr
    ELSE "refused"

\* Context.GetArc: resolves an access control identifier.
GetArc(key) ==
    IF key \notin DOMAIN arcs \/ arcs[key] = Missing
    THEN [err |-> "not found"]
    ELSE [err |-> NoErr, access |-> arcs[key]]

\* Context.Read: reads the instance stored at the key; the read fails when
\* the storage fails and when the key holds no instance.
Read(key) ==
    IF fault = "read"
    THEN [err |-> "storage failure"]
    ELSE IF key \in DOMAIN page
         THEN [err |-> NoErr, instance |-> page[key]]
         ELSE [err |-> "not found"]

\* WritablePage.Write: stores the instance under the key.
Write(key, instance) ==
    [k \in DOMAIN page \cup {key} |-> IF k = key THEN instance ELSE page[k]]

\* Contract.Spawn of the two implementations.  X refuses the argument 0 and
\* otherwise keeps the argument as the value; Y never fails and starts from
\* 0.  Both pick the access control of the new instance from the identity,
\* in opposite ways.
ContractSpawn(impl, argument, identity) ==
    IF impl = "X"
    THEN IF argument = 0
         THEN [err |-> "bad argument"]
         ELSE [err |-> NoErr, value |-> argument % (MaxValue + 1),
               arcid |-> IF identity = "I1" THEN "A1" ELSE "A0"]
    ELSE [err |-> NoErr, value |-> 0,
          arcid |-> IF identity = "I1" THEN "A0" ELSE "A1"]

\* Contract.Invoke of the two implementations.  X refuses the argument 0 and
\* otherwise adds the argument to the stored value; Y replaces the value by
\* the argument.
ContractInvoke(impl, argument, identity, instance) ==
    IF impl = "X"
    THEN IF argument = 0
         THEN [err |-> "bad argument"]
         ELSE [err |-> NoErr,
               value |-> (instance.Value + argument) % (MaxValue + 1)]
    ELSE [err |-> NoErr, value |-> argument % (MaxValue + 1)]

----------------------------------------------------------------------------
(* Client tasks                                                            *)

SpawnTask(contractID, argument) ==
    [type |-> "spawn", ContractID |-> contractID, Argument |-> argument]

InvokeTask(key, argument) ==
    [type |-> "invoke", Key |-> key, Argument |-> argument]

DeleteTask(key) ==
    [type |-> "delete", Key |-> key]

\* The tasks a client can send for the identifiers of the page.
SpawnTasks == {SpawnTask(c, a) : c \in ContractIDs, a \in Arguments}
InvokeTasks == {InvokeTask(k, a) : k \in Keys, a \in Arguments}
DeleteTasks == {DeleteTask(k) : k \in Keys}

----------------------------------------------------------------------------
(* Fingerprints                                                            *)

\* the identifiers a fingerprinted task can carry: the ones of the page and
\* a shorter one of each kind
FPContractIDs == ContractIDs \cup {"c"}
FPKeys == Keys \cup {"k"}

\* The tasks whose fingerprint is taken.
FPSpawnTasks == {SpawnTask(c, a) : c \in FPContractIDs, a \in Arguments}
FPInvokeTasks == {InvokeTask(k, a) : k \in FPKeys, a \in Arguments}
FPDeleteTasks == {DeleteTask(k) : k \in FPKeys}

\* []byte(act.ContractID) and act.Key: the bytes of an identifier.
Bytes(s) ==
    CASE s = "c" -> <<99>>
      [] s = "c1" -> <<99, 49>>
      [] s = "c2" -> <<99, 50>>
      [] s = "k" -> <<107>>
      [] s = "k1" -> <<107, 49>>
      [] s = "k2" -> <<107, 50>>

\* The writers handed to Fingerprint: one that accepts every write
\* (fake.Hash without error), NewBadHash() and NewBadHashWithDelay(1).
Writers ==
    { [delay |-> 0, err |-> NoErr, buf |-> <<>>],
      [delay |-> 0, err |-> "fake error", buf |-> <<>>],
      [delay |-> 1, err |-> "fake error", buf |-> <<>>] }

\* the encoders: encoding.ProtoEncoder and fake.BadMarshalStableEncoder
Encoders == {"proto", "bad"}

\* fake.Hash.Write: while the delay lasts the write is accepted, afterwards
\* it returns the error of the hash (nil for a writer that never fails).
\* buf keeps the bytes of the accepted writes.
HashWrite(w, in) ==
    IF w.delay > 0
    THEN [err |-> NoErr, w |-> [w EXCEPT !.delay = @ - 1, !.buf = @ \o in]]
    ELSE IF w.err # NoErr
         THEN [err |-> w.err, w |-> w]
         ELSE [err |-> NoErr, w |-> [w EXCEPT !.buf = @ \o in]]

\* The stable serialization of an argument: the field is left out when it
\* has the zero value, and is written as a tag and the value otherwise.
StableBytes(argument) ==
    IF argument = 0 THEN <<>> ELSE <<8, argument>>

\* ProtoMarshaler.MarshalStable: the bad encoder fails without writing, the
\* other one writes the stable serialization.
MarshalStable(w, e, argument) ==
    IF e = "bad"
    THEN [err |-> "fake error", w |-> w]
    ELSE HashWrite(w, StableBytes(argument))

\* SpawnTask.Fingerprint
SpawnTaskFingerprint(act, w, e) ==
    LET r1 == HashWrite(w, Bytes(act.ContractID))
    IN  IF r1.err # NoErr
        THEN [err |-> "couldn't write contract", w |-> r1.w]
        ELSE LET r2 == MarshalStable(r1.w, e, act.Argument)
             IN  IF r2.err # NoErr
                 THEN [err |-> "couldn't write argument", w |-> r2.w]
                 ELSE [err |-> NoErr, w |-> r2.w]

\* Mutant of InvokeTaskFingerprint: the argument is written before the key.
InvokeTaskFingerprint_ArgumentFirst(act, w, e) ==
    LET r1 == MarshalStable(w, e, act.Argument)
    IN  IF r1.err # NoErr
        THEN [err |-> "couldn't write argument", w |-> r1.w]
        ELSE LET r2 == HashWrite(r1.w, Bytes(act.Key))
             IN  IF r2.err # NoErr
                 THEN [err |-> "couldn't write key", w |-> r2.w]
                 ELSE [err |-> NoErr, w |-> r2.w]

\* Mutant of InvokeTaskFingerprint: the key is not written.
InvokeTaskFingerprint_NoKey(act, w, e) ==
    LET r2 == MarshalStable(w, e, act.Argument)
    IN  IF r2.err # NoErr
        THEN [err |-> "couldn't write argument", w |-> r2.w]
        ELSE [err |-> NoErr, w |-> r2.w]

\* InvokeTask.Fingerprint
InvokeTaskFingerprint(act, w, e) ==
    LET r1 == HashWrite(w, Bytes(act.Key))
    IN  IF r1.err # NoErr
        THEN [err |-> "couldn't write key", w |-> r1.w]
        ELSE LET r2 == MarshalStable(r1.w, e, act.Argument)
             IN  IF r2.err # NoErr
                 THEN [err |-> "couldn't write argument", w |-> r2.w]
                 ELSE [err |-> NoErr, w |-> r2.w]

\* DeleteTask.Fingerprint
DeleteTaskFingerprint(a, w, e) ==
    LET r1 == HashWrite(w, Bytes(a.Key))
    IN  IF r1.err # NoErr
        THEN [err |-> "couldn't write key", w |-> r1.w]
        ELSE [err |-> NoErr, w |-> r1.w]

\* The Fingerprint method of the task, by its type.
TaskFingerprint(task, w, e) ==
    CASE task.type = "spawn" -> SpawnTaskFingerprint(task, w, e)
      [] task.type = "invoke" -> InvokeTaskFingerprint(task, w, e)
      [] task.type = "delete" -> DeleteTaskFingerprint(task, w, e)

----------------------------------------------------------------------------
(* The server task                                                         *)

\* Mutant of hasAccess: an access control that does not resolve is taken
\* to restrict nothing.
hasAccess_UnresolvedIsOpen(identity, key, rule) ==
    LET access == GetArc(key)
        c1 == <<[op |-> "GetArc", arc |-> key, err |-> access.err]>>
    IN  IF access.err # NoErr
        THEN [err |-> NoErr, calls |-> c1]
        ELSE LET m == Match(access.access, rule, identity)
                 c2 == Append(c1, [op |-> "Match", arc |-> key, rule |-> rule,
                                   identity |-> identity, err |-> m])
             IN  IF m # NoErr
                 THEN [err |-> "refused", calls |-> c2]
                 ELSE [err |-> NoErr, calls |-> c2]

\* Mutant of hasAccess: the result of Match is dropped.
hasAccess_IgnoreMatch(identity, key, rule) ==
    LET access == GetArc(key)
        c1 == <<[op |-> "GetArc", arc |-> key, err |-> access.err]>>
    IN  IF access.err # NoErr
        THEN [err |-> "couldn't read access", calls |-> c1]
        ELSE LET m == Match(access.access, rule, identity)
                 c2 == Append(c1, [op |-> "Match", arc |-> key, rule |-> rule,
                                   identity |-> identity, err |-> m])
             IN  [err |-> NoErr, calls |-> c2]

\* serverTask.hasAccess: resolve the access control, then match the rule.
hasAccess(identity, key, rule) ==
    LET access == GetArc(key)
        c1 == <<[op |-> "GetArc", arc |-> key, err |-> access.err]>>
    IN  IF access.err # NoErr
        THEN [err |-> "couldn't read access", calls |-> c1]
        ELSE LET m == Match(access.access, rule, identity)
                 c2 == Append(c1, [op |-> "Match", arc |-> key, rule |-> rule,
                                   identity |-> identity, err |-> m])
             IN  IF m # NoErr
                 THEN [err |-> "refused", calls |-> c2]
                 ELSE [err |-> NoErr, calls |-> c2]

\* Mutant of spawnExists: only an instance of the same contract collides.
spawnExists_SameContractOnly(id, task) ==
    /\ Read(id).err = NoErr
    /\ Read(id).instance.ContractID = task.ContractID

\* Mutant of spawnExists: only a live instance collides.
spawnExists_LiveOnly(id, task) ==
    /\ Read(id).err = NoErr
    /\ ~Read(id).instance.Deleted

\* consumeSpawn, the existence check: the read of the target key succeeds.
spawnExists(id, task) == Read(id).err = NoErr

\* Mutant of spawnRule: the rule of the wrong action.
spawnRule_Invoke(task) == Compile(task.ContractID, "invoke")

\* consumeSpawn, the rule checked.
spawnRule(task) == Compile(task.ContractID, "spawn")

\* Mutant of spawnInstance: the value returned by the contract is left out.
spawnInstance_NoValue(id, task, value, arcid) ==
    [Key |-> id, AccessControl |-> arcid, ContractID |-> task.ContractID,
     Deleted |-> FALSE, Value |-> 0]

\* Mutant of spawnInstance: the key of the instance is not the key derived
\* from the transaction.
spawnInstance_OtherKey(id, task, value, arcid) ==
    [Key |-> IF id = "k1" THEN "k2" ELSE "k1", AccessControl |-> arcid,
     ContractID |-> task.ContractID, Deleted |-> FALSE, Value |-> value]

\* consumeSpawn, the instance assembled on success.
spawnInstance(id, task, value, arcid) ==
    [Key |-> id, AccessControl |-> arcid, ContractID |-> task.ContractID,
     Deleted |-> FALSE, Value |-> value]

\* serverTask.consumeSpawn; id is ctx.GetID(), the key derived from the
\* transaction.
consumeSpawn(id, task, identity) ==
    LET c1 == <<[op |-> "Read", key |-> id]>>
    IN  IF spawnExists(id, task)
        THEN [err |-> "instance already exists", calls |-> c1]
        ELSE
        LET exec == contracts[task.ContractID]
        IN  IF exec = Nil
            THEN [err |-> "contract not found", calls |-> c1]
            ELSE
            LET out == ContractSpawn(exec, task.Argument, identity)
                c2 == Append(c1, [op |-> "Spawn", impl |-> exec])
            IN  IF out.err # NoErr
                THEN [err |-> "couldn't execute spawn", calls |-> c2]
                ELSE
                LET rule == spawnRule(task)
                    acc == hasAccess(identity, out.arcid, rule)
                    c3 == c2 \o acc.calls
                IN  IF acc.err # NoErr
                    THEN [err |-> "no access", calls |-> c3]
                    ELSE [err |-> NoErr, calls |-> c3,
                          instance |-> spawnInstance(id, task, out.value,
                                                     out.arcid)]

\* Mutant of invokeExec: the argument of the task selects the contract.
invokeExec_FromArgument(task, instance) ==
    contracts[IF task.Argument = 0 THEN "c1" ELSE "c2"]

\* Mutant of invokeExec: a contract that is not registered falls back to a
\* default implementation.
invokeExec_Fallback(task, instance) ==
    IF contracts[instance.ContractID] = Nil
    THEN "Y"
    ELSE contracts[instance.ContractID]

\* consumeInvoke, the contract executed: the one registered under the
\* contract of the stored instance.
invokeExec(task, instance) == contracts[instance.ContractID]

\* Mutant of invokeResult: a new instance is assembled as in a spawn.
invokeResult_Fresh(instance, value) ==
    [Key |-> instance.Key, AccessControl |-> instance.AccessControl,
     ContractID |-> instance.ContractID, Deleted |-> FALSE, Value |-> value]

\* consumeInvoke, the instance returned: the one read, with the new value.
invokeResult(instance, value) == [instance EXCEPT !.Value = value]

\* Mutant of consumeInvoke: the contract runs before the access check.
consumeInvoke_ExecuteFirst(task, identity) ==
    LET c1 == <<[op |-> "Read", key |-> task.Key]>>
        rd == Read(task.Key)
    IN  IF rd.err # NoErr
        THEN [err |-> "couldn't read the instance", calls |-> c1]
        ELSE
        LET instance == rd.instance
            exec == invokeExec(task, instance)
        IN  IF exec = Nil
            THEN [err |-> "contract not found", calls |-> c1]
            ELSE
            LET out == ContractInvoke(exec, task.Argument, identity,
                                      instance)
                c2 == Append(c1, [op |-> "Invoke", impl |-> exec])
            IN  IF out.err # NoErr
                THEN [err |-> "couldn't invoke", calls |-> c2]
                ELSE
                LET rule == Compile(instance.ContractID, "invoke")
                    acc == hasAccess(identity, instance.AccessControl, rule)
                    c3 == c2 \o acc.calls
                IN  IF acc.err # NoErr
                    THEN [err |-> "no access", calls |-> c3]
                    ELSE [err |-> NoErr, calls |-> c3,
                          instance |-> invokeResult(instance, out.value)]

\* Mutant of consumeInvoke: a failed read yields an empty instance instead
\* of an error.
consumeInvoke_EmptyInstance(task, identity) ==
    LET c1 == <<[op |-> "Read", key |-> task.Key]>>
        rd == Read(task.Key)
        instance == IF rd.err # NoErr
                    THEN [Key |-> task.Key, AccessControl |-> "",
                          ContractID |-> "", Deleted |-> FALSE, Value |-> 0]
                    ELSE rd.instance
        rule == Compile(instance.ContractID, "invoke")
        acc == hasAccess(identity, instance.AccessControl, rule)
        c2 == c1 \o acc.calls
    IN  IF acc.err # NoErr
        THEN [err |-> "no access", calls |-> c2]
        ELSE
        LET exec == invokeExec(task, instance)
        IN  IF exec = Nil
            THEN [err |-> "contract not found", calls |-> c2]
            ELSE
            LET out == ContractInvoke(exec, task.Argument, identity,
                                      instance)
                c3 == Append(c2, [op |-> "Invoke", impl |-> exec])
            IN  IF out.err # NoErr
                THEN [err |-> "couldn't invoke", calls |-> c3]
                ELSE [err |-> NoErr, calls |-> c3,
                      instance |-> invokeResult(instance, out.value)]

\* Mutant of consumeInvoke: an instance marked deleted is refused.
consumeInvoke_RefuseDeleted(task, identity) ==
    LET c1 == <<[op |-> "Read", key |-> task.Key]>>
        rd == Read(task.Key)
    IN  IF rd.err # NoErr
        THEN [err |-> "couldn't read the instance", calls |-> c1]
        ELSE
        IF rd.instance.Deleted
        THEN [err |-> "instance is deleted", calls |-> c1]
        ELSE
        LET instance == rd.instance
            rule == Compile(instance.ContractID, "invoke")
            acc == hasAccess(identity, instance.AccessControl, rule)
            c2 == c1 \o acc.calls
        IN  IF acc.err # NoErr
            THEN [err |-> "no access", calls |-> c2]
            ELSE
            LET exec == invokeExec(task, instance)
            IN  IF exec = Nil
                THEN [err |-> "contract not found", calls |-> c2]
                ELSE
                LET out == ContractInvoke(exec, task.Argument, identity,
                                          instance)
                    c3 == Append(c2, [op |-> "Invoke", impl |-> exec])
                IN  IF out.err # NoErr
                    THEN [err |-> "couldn't invoke", calls |-> c3]
                    ELSE [err |-> NoErr, calls |-> c3,
                          instance |-> invokeResult(instance, out.value)]

\* serverTask.consumeInvoke
consumeInvoke(task, identity) ==
    LET c1 == <<[op |-> "Read", key |-> task.Key]>>
        rd == Read(task.Key)
    IN  IF rd.err # NoErr
        THEN [err |-> "couldn't read the instance", calls |-> c1]
        ELSE
        LET instance == rd.instance
            rule == Compile(instance.ContractID, "invoke")
            acc == hasAccess(identity, instance.AccessControl, rule)
            c2 == c1 \o acc.calls
        IN  IF acc.err # NoErr
            THEN [err |-> "no access", calls |-> c2]
            ELSE
            LET exec == invokeExec(task, instance)
            IN  IF exec = Nil
                THEN [err |-> "contract not found", calls |-> c2]
                ELSE
                LET out == ContractInvoke(exec, task.Argument, identity,
                                          instance)
                    c3 == Append(c2, [op |-> "Invoke", impl |-> exec])
                IN  IF out.err # NoErr
                    THEN [err |-> "couldn't invoke", calls |-> c3]
                    ELSE [err |-> NoErr, calls |-> c3,
                          instance |-> invokeResult(instance, out.value)]

\* Mutant of deleteResult: the retired instance loses its value.
deleteResult_ClearValue(instance) ==
    [instance EXCEPT !.Deleted = TRUE, !.Value = 0]

\* Mutant of deleteResult: the flag is flipped, so that a second delete
\* brings the instance back.
deleteResult_Toggle(instance) ==
    [instance EXCEPT !.Deleted = ~instance.Deleted]

\* consumeDelete, the instance returned: the one read, marked deleted.
deleteResult(instance) == [instance EXCEPT !.Deleted = TRUE]

\* Mutant of consumeDelete: the delete needs the contract of the instance
\* to be registered.
consumeDelete_RequiresContract(task) ==
    LET c1 == <<[op |-> "Read", key |-> task.Key]>>
        rd == Read(task.Key)
    IN  IF rd.err # NoErr
        THEN [err |-> "couldn't read the instance", calls |-> c1]
        ELSE IF contracts[rd.instance.ContractID] = Nil
             THEN [err |-> "contract not found", calls |-> c1]
             ELSE [err |-> NoErr, calls |-> c1,
                   instance |-> deleteResult(rd.instance)]

\* serverTask.consumeDelete
consumeDelete(task) ==
    LET c1 == <<[op |-> "Read", key |-> task.Key]>>
        rd == Read(task.Key)
    IN  IF rd.err # NoErr
        THEN [err |-> "couldn't read the instance", calls |-> c1]
        ELSE [err |-> NoErr, calls |-> c1,
              instance |-> deleteResult(rd.instance)]

\* The type switch of serverTask.Consume.
transition(id, task, identity) ==
    CASE task.type = "spawn" -> consumeSpawn(id, task, identity)
      [] task.type = "invoke" -> consumeInvoke(task, identity)
      [] task.type = "delete" -> consumeDelete(task)

\* What the page can hold after a failed Write.  A spawn wrote to an
\* instance of its own; an invoke or a delete assigned the field of the
\* instance it was given by the read (consumeInvoke: instance.Value = value,
\* consumeDelete: instance.Deleted = true) before the write: the page is as
\* it was when the read hands out a copy, and holds the assigned instance
\* when the read hands out the object the page keeps.
FailedWritePages(task, instance) ==
    IF task.type = "spawn"
    THEN {page}
    ELSE {page, [page EXCEPT ![task.Key] = instance]}

\* Mutant of Consume: the instance is written twice, under the key of the
\* task and under its own key.
Consume_DoubleWrite(id, task, identity) ==
    LET r == transition(id, task, identity)
        key == IF task.type = "spawn" THEN id ELSE task.Key
    IN  /\ IF r.err # NoErr
           THEN /\ page' = page
                /\ last' = [op |-> "Consume", task |-> task, key |-> key,
                            identity |-> identity, err |-> r.err,
                            calls |-> r.calls]
           ELSE IF fault = "write"
           THEN /\ page' \in FailedWritePages(task, r.instance)
                /\ last' = [op |-> "Consume", task |-> task, key |-> key,
                            identity |-> identity,
                            err |-> "couldn't write instance to page",
                            calls |-> Append(r.calls,
                                [op |-> "Write", key |-> r.instance.Key,
                                 err |-> "storage failure"])]
           ELSE /\ page' = Write(r.instance.Key, r.instance)
                /\ last' = [op |-> "Consume", task |-> task, key |-> key,
                            identity |-> identity, err |-> NoErr,
                            calls |-> r.calls \o
                                <<[op |-> "Write", key |-> key],
                                  [op |-> "Write", key |-> r.instance.Key]>>]
        /\ fault' = "none"
        /\ UNCHANGED <<contracts, arcs>>

\* Mutant of Consume: an instance marked deleted is removed from the page.
Consume_RemoveDeleted(id, task, identity) ==
    LET r == transition(id, task, identity)
        key == IF task.type = "spawn" THEN id ELSE task.Key
    IN  /\ IF r.err # NoErr
           THEN /\ page' = page
                /\ last' = [op |-> "Consume", task |-> task, key |-> key,
                            identity |-> identity, err |-> r.err,
                            calls |-> r.calls]
           ELSE IF fault = "write"
           THEN /\ page' \in FailedWritePages(task, r.instance)
                /\ last' = [op |-> "Consume", task |-> task, key |-> key,
                            identity |-> identity,
                            err |-> "couldn't write instance to page",
                            calls |-> Append(r.calls,
                                [op |-> "Write", key |-> r.instance.Key,
                                 err |-> "storage failure"])]
           ELSE /\ page' = IF r.instance.Deleted
                           THEN [k \in DOMAIN page \ {r.instance.Key}
                                    |-> page[k]]
                           ELSE Write(r.instance.Key, r.instance)
                /\ last' = [op |-> "Consume", task |-> task, key |-> key,
                            identity |-> identity, err |-> NoErr,
                            calls |-> Append(r.calls,
                                [op |-> "Write", key |-> r.instance.Key])]
        /\ fault' = "none"
        /\ UNCHANGED <<contracts, arcs>>

\* serverTask.Consume: run the transition and, when it succeeds, write the
\* instance under its own key.
Consume(id, task, identity) ==
    LET r == transition(id, task, identity)
        key == IF task.type = "spawn" THEN id ELSE task.Key
    IN  /\ IF r.err # NoErr
           THEN /\ page' = page
                /\ last' = [op |-> "Consume", task |-> task, key |-> key,
                            identity |-> identity, err |-> r.err,
                            calls |-> r.calls]
           ELSE IF fault = "write"
           THEN /\ page' \in FailedWritePages(task, r.instance)
                /\ last' = [op |-> "Consume", task |-> task, key |-> key,
                            identity |-> identity,
                            err |-> "couldn't write instance to page",
                            calls |-> Append(r.calls,
                                [op |-> "Write", key |-> r.instance.Key,
                                 err |-> "storage failure"])]
           ELSE /\ page' = Write(r.instance.Key, r.instance)
                /\ last' = [op |-> "Consume", task |-> task, key |-> key,
                            identity |-> identity, err |-> NoErr,
                            calls |-> Append(r.calls,
                                [op |-> "Write", key |-> r.instance.Key])]
        /\ fault' = "none"
        /\ UNCHANGED <<contracts, arcs>>

----------------------------------------------------------------------------
(* Actions                                                                 *)

\* NewTaskFactory: an empty registry; the page is empty and the two access
\* controls of the ledger exist.
Init ==
    /\ page = <<>>
    /\ contracts = [c \in ContractIDs |-> Nil]
    /\ arcs = [a \in ArcIDs |-> PolicyOf(a)]
    /\ fault = "none"
    /\ last = [op |-> "init"]

\* Mutant of Register: a name that is already bound keeps its contract.
Register_KeepFirst(name, contract) ==
    /\ contracts' = IF contracts[name] = Nil
                    THEN [contracts EXCEPT ![name] = contract]
                    ELSE contracts
    /\ last' = [op |-> "Register", name |-> name, contract |-> contract,
                previous |-> contracts[name]]
    /\ UNCHANGED <<page, arcs, fault>>

\* TaskFactory.Register; last.previous remembers the binding replaced.
Register(name, contract) ==
    /\ contracts' = [contracts EXCEPT ![name] = contract]
    /\ last' = [op |-> "Register", name |-> name, contract |-> contract,
                previous |-> contracts[name]]
    /\ UNCHANGED <<page, arcs, fault>>

\* The ledger removes an access control or puts it back (A0, the access
\* control that allows everything, stays).
SetArc(key, policy) ==
    /\ arcs' = [arcs EXCEPT ![key] = policy]
    /\ last' = [op |-> "SetArc"]
    /\ UNCHANGED <<page, contracts, fault>>

ConsumeSpawnTask ==
    \E id \in Keys, task \in SpawnTasks, i \in Identities :
        Consume(id, task, i)

ConsumeInvokeTask ==
    \E task \in InvokeTasks, i \in Identities :
        Consume(task.Key, task, i)

ConsumeDeleteTask ==
    \E task \in DeleteTasks, i \in Identities :
        Consume(task.Key, task, i)

RegisterContract ==
    \E name \in ContractIDs, c \in Impls \cup {Nil} : Register(name, c)

ChangeArc ==
    \E a \in ArcIDs \ {"A0"} : \E p \in {PolicyOf(a), Missing} : SetArc(a, p)

\* A call of task.Fingerprint(w, e); the task is not executed.
Fingerprint(task, w, e) ==
    LET r == TaskFingerprint(task, w, e)
    IN  /\ last' = [op |-> "Fingerprint", task |-> task, writer |-> w,
                    encoder |-> e, err |-> r.err, out |-> r.w.buf]
        /\ UNCHANGED <<page, contracts, arcs, fault>>

FingerprintSpawn ==
    \E task \in FPSpawnTasks, w \in Writers, e \in Encoders :
        Fingerprint(task, w, e)

FingerprintInvoke ==
    \E task \in FPInvokeTasks, w \in Writers, e \in Encoders :
        Fingerprint(task, w, e)

FingerprintDelete ==
    \E task \in FPDeleteTasks, w \in Writers :
        Fingerprint(task, w, "proto")

Next ==
    \/ ConsumeSpawnTask
    \/ ConsumeInvokeTask
    \/ ConsumeDeleteTask
    \/ RegisterContract
    \/ ChangeArc

Spec == Init /\ [][Next]_vars

\* The fingerprints of tasks, taken while contracts are registered and
\* instances are spawned.
NextFP ==
    \/ FingerprintSpawn
    \/ FingerprintInvoke
    \/ FingerprintDelete
    \/ RegisterContract
    \/ ConsumeSpawnTask

SpecFP == Init /\ [][NextFP]_vars

\* The storage gets into a state where the next read of the page, or the
\* next write, fails.
StorageFault ==
    /\ fault = "none"
    /\ fault' \in {"read", "write"}
    /\ last' = [op |-> "StorageFault"]
    /\ UNCHANGED <<page, contracts, arcs>>

\* The tasks applied to a page whose reads and writes can fail.
NextFault ==
    \/ ConsumeSpawnTask
    \/ ConsumeInvokeTask
    \/ ConsumeDeleteTask
    \/ RegisterContract
    \/ StorageFault

SpecFault == Init /\ [][NextFault]_vars

----------------------------------------------------------------------------
(* Vocabulary of the properties                                            *)

HasCall(calls, op) == \E i \in DOMAIN calls : calls[i].op = op

CallsOf(calls, op) == {i \in DOMAIN calls : calls[i].op = op}

\* The step is a Consume of a task of the given type.
ConsumeStep(type) == last'.op = "Consume" /\ last'.task.type = type

\* The last operation was a Consume of a task of the given type.
Consumed(type) == last.op = "Consume" /\ last.task.type = type

\* The access control resolves and accepts the rule for the identity.
Allowed(arcid, rule, identity) ==
    /\ arcid \in DOMAIN arcs
    /\ arcs[arcid] # Missing
    /\ Match(arcs[arcid], rule, identity) = NoErr

\* The failures of a spawn at the key id, step by step.
SpawnFailure(id, task, identity) ==
    \/ id \in DOMAIN page
    \/ contracts[task.ContractID] = Nil
    \/ /\ contracts[task.ContractID] # Nil
       /\ LET out == ContractSpawn(contracts[task.ContractID],
                                   task.Argument, identity)
          IN  \/ out.err # NoErr
              \/ /\ out.err = NoErr
                 /\ ~Allowed(out.arcid, Compile(task.ContractID, "spawn"),
                             identity)

\* The failures of an invoke, step by step.
InvokeFailure(task, identity) ==
    \/ task.Key \notin DOMAIN page
    \/ /\ task.Key \in DOMAIN page
       /\ LET inst == page[task.Key]
          IN  \/ ~Allowed(inst.AccessControl,
                          Compile(inst.ContractID, "invoke"), identity)
              \/ contracts[inst.ContractID] = Nil
              \/ /\ contracts[inst.ContractID] # Nil
                 /\ ContractInvoke(contracts[inst.ContractID], task.Argument,
                                   identity, inst).err # NoErr

\* The failure of a delete.
DeleteFailure(task) == task.Key \notin DOMAIN page

TransitionFailure(id, task, identity) ==
    CASE task.type = "spawn" -> SpawnFailure(id, task, identity)
      [] task.type = "invoke" -> InvokeFailure(task, identity)
      [] task.type = "delete" -> DeleteFailure(task)

----------------------------------------------------------------------------
(* Properties                                                              *)

\* C1 - All-or-nothing: a Consume whose transition fails at any step
\* (instance already exists, instance not found, contract not registered,
\* contract error, access control unresolvable or denying) returns an error,
\* and a Consume that returns an error performs no page write and leaves
\* every key of the page as it was.
C1_AllOrNothing ==
    [][last'.op = "Consume" =>
          /\ TransitionFailure(last'.key, last'.task, last'.identity)
                => last'.err # NoErr
          /\ last'.err # NoErr
                => /\ page' = page
                   /\ ~HasCall(last'.calls, "Write")]_vars

\* A contract failed partway through an invoke on a stored instance.
C1_Witness ==
    /\ Consumed("invoke")
    /\ last.err = "couldn't invoke"
    /\ last.key \in DOMAIN page

\* C2 - Spawn collision: an instance stays on the page once spawned, and
\* every spawn whose target key already holds an instance fails with
\* 'instance already exists' and leaves the page as it was.
C2_SpawnCollision ==
    [][/\ DOMAIN page \subseteq DOMAIN page'
       /\ (ConsumeStep("spawn") /\ last'.key \in DOMAIN page)
             => /\ last'.err = "instance already exists"
                /\ page' = page]_vars

\* A spawn of another contract was refused at a key that holds an instance.
C2_Witness ==
    /\ Consumed("spawn")
    /\ last.err = "instance already exists"
    /\ last.key \in DOMAIN page
    /\ page[last.key].ContractID # last.task.ContractID

\* C3 - Access enforcement on invoke: when the policy of the stored instance
\* resolves and refuses the rule (contract_id, "invoke") for the submitter,
\* the invoke fails and the stored value is unchanged; when it accepts the
\* rule, the contract is registered and its Invoke succeeds, the invoke
\* succeeds and the stored value is the contract's output.
C3_AccessEnforcement ==
    [][(ConsumeStep("invoke") /\ last'.key \in DOMAIN page
            /\ page[last'.key].AccessControl \in DOMAIN arcs
            /\ arcs[page[last'.key].AccessControl] # Missing) =>
          LET inst == page[last'.key]
              rule == Compile(inst.ContractID, "invoke")
              exec == contracts[inst.ContractID]
              out == ContractInvoke(exec, last'.task.Argument,
                                    last'.identity, inst)
          IN  /\ Match(arcs[inst.AccessControl], rule, last'.identity) # NoErr
                    => /\ last'.err = "no access"
                       /\ last'.key \in DOMAIN page'
                       /\ page'[last'.key].Value = inst.Value
              /\ (/\ Match(arcs[inst.AccessControl], rule, last'.identity)
                         = NoErr
                  /\ exec # Nil
                  /\ out.err = NoErr)
                    => /\ last'.err = NoErr
                       /\ page'[last'.key].Value = out.value]_vars

\* An invoke was refused by a policy that resolved.
C3_Witness ==
    /\ Consumed("invoke")
    /\ last.err = "no access"
    /\ last.calls[Len(last.calls)].op = "Match"
    /\ last.calls[Len(last.calls)].err # NoErr

\* C4 - Invoke is authorize-before-execute: the contract's Invoke is called
\* only after the access control of the stored instance resolved and matched
\* the submitter, and never when the resolution or the match failed.
C4_AuthorizeBeforeExecute ==
    Consumed("invoke") =>
        /\ \A i \in CallsOf(last.calls, "Invoke") :
              \E j \in 1..(i - 1) :
                  /\ last.calls[j].op = "Match"
                  /\ last.calls[j].err = NoErr
                  /\ last.calls[j].identity = last.identity
                  /\ last.calls[j].arc = page[last.key].AccessControl
        /\ (\E j \in DOMAIN last.calls :
                /\ last.calls[j].op \in {"GetArc", "Match"}
                /\ last.calls[j].err # NoErr)
              => ~HasCall(last.calls, "Invoke")
        /\ ~HasCall(last.calls, "Match") => ~HasCall(last.calls, "Invoke")

\* The contract's Invoke ran during an invoke.
C4_Witness ==
    /\ Consumed("invoke")
    /\ HasCall(last.calls, "Invoke")
    /\ HasCall(last.calls, "Match")

\* C5 - Spawn is execute-then-authorize: the contract's Spawn runs before
\* any access check; the check is made on the access control the contract
\* returned, for the rule (contract_id, "spawn") and the submitter; the
\* instance is written only if that check passed, and a spawn that failed
\* after the contract ran leaves no instance at the target key.
C5_ExecuteThenAuthorize ==
    Consumed("spawn") =>
        /\ \A j \in DOMAIN last.calls :
              last.calls[j].op \in {"GetArc", "Match"} =>
                  \E i \in 1..(j - 1) :
                      /\ last.calls[i].op = "Spawn"
                      /\ LET out == ContractSpawn(last.calls[i].impl,
                                        last.task.Argument, last.identity)
                         IN  /\ out.err = NoErr
                             /\ last.calls[j].arc = out.arcid
        /\ \A j \in CallsOf(last.calls, "Match") :
              /\ last.calls[j].rule = Compile(last.task.ContractID, "spawn")
              /\ last.calls[j].identity = last.identity
        /\ HasCall(last.calls, "Write")
              => \E j \in DOMAIN last.calls :
                    /\ last.calls[j].op = "Match"
                    /\ last.calls[j].err = NoErr
        /\ (HasCall(last.calls, "Spawn") /\ last.err # NoErr)
              => last.key \notin DOMAIN page
        /\ last.err = NoErr
              => /\ HasCall(last.calls, "Write")
                 /\ last.key \in DOMAIN page

\* The contract's Spawn ran and the policy it chose refused the submitter.
C5_Witness ==
    /\ Consumed("spawn")
    /\ last.err = "no access"
    /\ HasCall(last.calls, "Spawn")
    /\ last.key \notin DOMAIN page

\* C6 - Instance identity: in every step, whatever task is applied, every
\* instance of the page is still on the page afterwards, under the same key
\* and with the same key and contract_id fields.
C6_InstanceIdentity ==
    [][\A k \in DOMAIN page :
          /\ k \in DOMAIN page'
          /\ page'[k].Key = page[k].Key
          /\ page'[k].ContractID = page[k].ContractID]_vars

\* An instance that was spawned and deleted has just been invoked, while
\* the other contract name is bound too.
C6_Witness ==
    /\ Consumed("invoke")
    /\ last.err = NoErr
    /\ page[last.key].Deleted
    /\ \A c \in ContractIDs : contracts[c] # Nil

\* C7 - Delete: a delete on a key with no instance fails and writes
\* nothing; a delete on an existing instance succeeds and writes it back
\* with deleted = true and every other field as it was.
C7_Delete ==
    [][ConsumeStep("delete") =>
          IF last'.key \in DOMAIN page
          THEN /\ last'.err = NoErr
               /\ HasCall(last'.calls, "Write")
               /\ page' = [page EXCEPT ![last'.key] =
                              [Key |-> page[last'.key].Key,
                               ContractID |-> page[last'.key].ContractID,
                               AccessControl |->
                                   page[last'.key].AccessControl,
                               Value |-> page[last'.key].Value,
                               Deleted |-> TRUE]]
          ELSE /\ last'.err # NoErr
               /\ ~HasCall(last'.calls, "Write")
               /\ page' = page]_vars

\* An instance with a value other than the initial one has been deleted.
C7_Witness ==
    /\ Consumed("delete")
    /\ last.err = NoErr
    /\ page[last.key].Deleted
    /\ page[last.key].Value # 0

\* C8 - Invoke requires existence: an invoke on a key with no instance
\* fails right after the read, before any access check or contract call,
\* and leaves the page as it was.
C8_InvokeRequiresExistence ==
    [][(ConsumeStep("invoke") /\ last'.key \notin DOMAIN page) =>
          /\ last'.err = "couldn't read the instance"
          /\ last'.calls = <<[op |-> "Read", key |-> last'.key]>>
          /\ page' = page]_vars

\* An invoke found no instance while the other key holds one.
C8_Witness ==
    /\ Consumed("invoke")
    /\ last.err = "couldn't read the instance"
    /\ last.key \notin DOMAIN page
    /\ DOMAIN page # {}

\* C9 - Invoke changes only the value: after a successful invoke the stored
\* instance has the value returned by the contract and the key,
\* contract_id, access_control_id and deleted flag it had before; the other
\* keys are as they were.
C9_InvokeChangesOnlyValue ==
    [][(ConsumeStep("invoke") /\ last'.err = NoErr) =>
          /\ last'.key \in DOMAIN page
          /\ LET inst == page[last'.key]
                 out == ContractInvoke(contracts[inst.ContractID],
                            last'.task.Argument, last'.identity, inst)
             IN  /\ out.err = NoErr
                 /\ page' = [page EXCEPT ![last'.key] =
                                [Key |-> inst.Key,
                                 ContractID |-> inst.ContractID,
                                 AccessControl |-> inst.AccessControl,
                                 Deleted |-> inst.Deleted,
                                 Value |-> out.value]]]_vars

\* A live instance under the owner policy has been invoked.
C9_Witness ==
    /\ Consumed("invoke")
    /\ last.err = NoErr
    /\ ~page[last.key].Deleted
    /\ page[last.key].AccessControl = "A1"

\* C10 - No contract redirection on invoke: the contract run by an invoke
\* is the one registered under the contract_id of the instance stored at
\* the task's key, and the rule matched is built from that contract_id.
C10_NoContractRedirection ==
    Consumed("invoke") =>
        /\ \A i \in CallsOf(last.calls, "Invoke") :
              /\ last.key \in DOMAIN page
              /\ last.calls[i].impl = contracts[page[last.key].ContractID]
        /\ \A i \in CallsOf(last.calls, "Match") :
              /\ last.key \in DOMAIN page
              /\ last.calls[i].rule =
                    Compile(page[last.key].ContractID, "invoke")

\* A contract ran for an invoke while the other name is bound to another
\* implementation.
C10_Witness ==
    /\ Consumed("invoke")
    /\ HasCall(last.calls, "Invoke")
    /\ \A c \in ContractIDs : contracts[c] # Nil
    /\ contracts["c1"] # contracts["c2"]

\* C11 - Delete is unauthenticated and contract-free: a delete on an
\* existing instance succeeds whoever submits it, whatever the policy of the
\* instance says and whether or not its contract is registered; the only
\* calls of a delete are the read of the key and the write.
C11_DeleteUnauthenticated ==
    Consumed("delete") =>
        /\ last.key \in DOMAIN page => last.err = NoErr
        /\ \A i \in DOMAIN last.calls : last.calls[i].op \in {"Read", "Write"}

\* I2 deleted an instance of c1 under the owner policy, which refuses I2
\* for every rule of c1, while the policy does not resolve and c1 is not
\* registered.
C11_Witness ==
    /\ Consumed("delete")
    /\ last.err = NoErr
    /\ last.identity = "I2"
    /\ page[last.key].ContractID = "c1"
    /\ page[last.key].AccessControl = "A1"
    /\ arcs["A1"] = Missing
    /\ contracts["c1"] = Nil

\* C12 - Spawn result: a successful spawn performs one write, at the key
\* derived from the transaction, which held no instance, of the instance
\* made of that key, the contract_id of the task, the value and the access
\* control returned by the contract's Spawn, and deleted = false; the rest
\* of the page is as it was.
C12_SpawnResult ==
    [][(ConsumeStep("spawn") /\ last'.err = NoErr) =>
          /\ last'.key \notin DOMAIN page
          /\ contracts[last'.task.ContractID] # Nil
          /\ LET out == ContractSpawn(contracts[last'.task.ContractID],
                            last'.task.Argument, last'.identity)
             IN  /\ out.err = NoErr
                 /\ DOMAIN page' = DOMAIN page \cup {last'.key}
                 /\ \A k \in DOMAIN page : page'[k] = page[k]
                 /\ page'[last'.key] =
                        [Key |-> last'.key,
                         ContractID |-> last'.task.ContractID,
                         AccessControl |-> out.arcid,
                         Value |-> out.value,
                         Deleted |-> FALSE]
          /\ Cardinality(CallsOf(last'.calls, "Write")) = 1
          /\ \A i \in CallsOf(last'.calls, "Write") :
                last'.calls[i].key = last'.key]_vars

\* A spawn succeeded with a value that is not the zero value, next to an
\* instance at the other key.
C12_Witness ==
    /\ Consumed("spawn")
    /\ last.err = NoErr
    /\ page[last.key].Value # 0
    /\ ~page[last.key].Deleted
    /\ DOMAIN page = Keys

\* C13 (as stated) - Unknown contract: a spawn whose contract_id is not
\* registered, and an invoke on an instance whose contract_id is not
\* registered, always fail with 'contract not found' and write nothing.
C13_UnknownContractAlwaysNotFound ==
    [][/\ (ConsumeStep("spawn") /\ contracts[last'.task.ContractID] = Nil)
             => /\ last'.err = "contract not found"
                /\ page' = page
       /\ (ConsumeStep("invoke") /\ last'.key \in DOMAIN page
              /\ contracts[page[last'.key].ContractID] = Nil)
             => /\ last'.err = "contract not found"
                /\ page' = page]_vars

\* C13 (amended) - Unknown contract is a hard failure: a spawn whose
\* contract_id is not registered and an invoke on an instance whose
\* contract_id is not registered always fail and write nothing; the error is
\* 'contract not found' when the check that precedes the lookup passed (the
\* target key of the spawn is free, the access check of the invoke passed),
\* and otherwise the error of that check ('instance already exists',
\* 'no access').
C13_UnknownContract ==
    [][/\ (ConsumeStep("spawn") /\ contracts[last'.task.ContractID] = Nil)
             => /\ page' = page
                /\ ~HasCall(last'.calls, "Write")
                /\ ~HasCall(last'.calls, "Spawn")
                /\ last'.err = IF last'.key \in DOMAIN page
                               THEN "instance already exists"
                               ELSE "contract not found"
       /\ (ConsumeStep("invoke") /\ last'.key \in DOMAIN page
              /\ contracts[page[last'.key].ContractID] = Nil)
             => /\ page' = page
                /\ ~HasCall(last'.calls, "Write")
                /\ ~HasCall(last'.calls, "Invoke")
                /\ last'.err =
                      IF Allowed(page[last'.key].AccessControl,
                                 Compile(page[last'.key].ContractID,
                                         "invoke"),
                                 last'.identity)
                      THEN "contract not found"
                      ELSE "no access"]_vars

\* An invoke passed the access check and found the contract of the stored
\* instance no longer registered.
C13_Witness ==
    /\ Consumed("invoke")
    /\ last.err = "contract not found"
    /\ last.key \in DOMAIN page
    /\ contracts[page[last.key].ContractID] = Nil
    /\ HasCall(last.calls, "Match")

\* C14 - A deleted instance cannot be updated anymore: once an instance is
\* marked deleted, no step changes its value.
C14_DeletedNotUpdated ==
    [][\A k \in DOMAIN page :
          page[k].Deleted =>
              /\ k \in DOMAIN page'
              /\ page'[k].Value = page[k].Value]_vars

\* C16 - Registry, last registration wins: a Register binds the name to the
\* contract given, whatever was bound before, and leaves the other names as
\* they were; no other operation changes the registry; the contract run by
\* a spawn or an invoke is the one the registry binds to the contract_id of
\* the task (spawn) or of the stored instance (invoke).
C16_LastRegistrationWins ==
    [][/\ last'.op = "Register"
             => contracts' = [c \in ContractIDs |->
                                 IF c = last'.name THEN last'.contract
                                 ELSE contracts[c]]
       /\ last'.op # "Register" => contracts' = contracts
       /\ ConsumeStep("spawn")
             => \A i \in CallsOf(last'.calls, "Spawn") :
                   last'.calls[i].impl = contracts[last'.task.ContractID]
       /\ ConsumeStep("invoke")
             => \A i \in CallsOf(last'.calls, "Invoke") :
                   last'.calls[i].impl =
                       contracts[page[last'.key].ContractID]]_vars

\* A name bound to one implementation has been registered again with the
\* other one, while the other name is bound too.
C16_Witness ==
    /\ last.op = "Register"
    /\ last.previous \in Impls
    /\ last.contract \in Impls
    /\ last.previous # last.contract
    /\ contracts[last.name] = last.contract
    /\ \A c \in ContractIDs : contracts[c] # Nil

\* The tasks that can be fingerprinted.
FPTasks == FPSpawnTasks \cup FPInvokeTasks \cup FPDeleteTasks

\* A writer that accepts every write.
GoodWriter == [delay |-> 0, err |-> NoErr, buf |-> <<>>]

\* The two tasks are of the same variant and differ in exactly one field.
DifferInOneField(t1, t2) ==
    /\ t1.type = t2.type
    /\ Cardinality({f \in DOMAIN t1 : t1[f] # t2[f]}) = 1

\* C17 - Fingerprint content: a Fingerprint that succeeds has written the
\* bytes of the contract_id followed by the stable serialization of the
\* argument (spawn), the bytes of the key followed by the stable
\* serialization of the argument (invoke), or the bytes of the key (delete),
\* whatever the page and the registry hold; a Fingerprint changes neither.
C17_FingerprintContent ==
    [][last'.op = "Fingerprint" =>
          /\ page' = page
          /\ contracts' = contracts
          /\ last'.err = NoErr =>
                last'.out =
                    CASE last'.task.type = "spawn" ->
                            Bytes(last'.task.ContractID)
                                \o StableBytes(last'.task.Argument)
                      [] last'.task.type = "invoke" ->
                            Bytes(last'.task.Key)
                                \o StableBytes(last'.task.Argument)
                      [] last'.task.type = "delete" ->
                            Bytes(last'.task.Key)]_vars

\* An invoke with an argument that has a serialization was fingerprinted
\* while the page holds an instance at its key.
C17_Witness ==
    /\ last.op = "Fingerprint"
    /\ last.err = NoErr
    /\ last.task.type = "invoke"
    /\ last.task.Argument # 0
    /\ last.task.Key \in DOMAIN page

\* C18 - Fingerprint discrimination: the fingerprint of a task differs from
\* the fingerprint of every task of the same variant that differs from it
\* in exactly one field.
C18_FingerprintDiscrimination ==
    (last.op = "Fingerprint" /\ last.err = NoErr) =>
        \A t \in FPTasks :
            DifferInOneField(last.task, t) =>
                TaskFingerprint(t, GoodWriter, "proto").w.buf # last.out

\* An invoke was fingerprinted whose key is a prefix of another key.
C18_Witness ==
    /\ last.op = "Fingerprint"
    /\ last.err = NoErr
    /\ last.task.type = "invoke"
    /\ last.task.Key = "k"
    /\ DOMAIN page # {}

C20_ReadFailureAborts ==
    [][(/\ last'.op = "Consume"
        /\ fault = "read"
        /\ last'.key \in DOMAIN page) =>
          /\ last'.err # NoErr
          /\ ~HasCall(last'.calls, "Write")
          /\ page' = page]_vars

\* C21 - A storage write failure leaves the state unchanged: when the write
\* at the end of a spawn, an invoke or a delete fails, Consume returns an
\* error and every key of the page reads as it did before the call.
C21_WriteFailureUnchanged ==
    [][(/\ last'.op = "Consume"
        /\ fault = "write"
        /\ ~TransitionFailure(last'.key, last'.task, last'.identity)) =>
          /\ last'.err # NoErr
          /\ page' = page]_vars

\* C22 - Key consistency: the instance stored under a key of the page has
\* that key as its key field, and the write of a Consume goes to the key
\* its task targets.
C22_KeyConsistency ==
    /\ \A k \in DOMAIN page : page[k].Key = k
    /\ last.op = "Consume" =>
          \A i \in CallsOf(last.calls, "Write") :
              last.calls[i].key = last.key

\* Both keys hold an instance and the last task, an invoke or a delete,
\* wrote one of them back.
C22_Witness ==
    /\ DOMAIN page = Keys
    /\ last.op = "Consume"
    /\ last.task.type \in {"invoke", "delete"}
    /\ last.err = NoErr
    /\ HasCall(last.calls, "Write")

\* C23 - Single-key frame: a Consume performs one page write when it
\* succeeds and none when it fails, the write targets the key of the task,
\* and what the page holds under every other key is as it was.
C23_SingleKeyFrame ==
    [][last'.op = "Consume" =>
          /\ Cardinality(CallsOf(last'.calls, "Write")) =
                IF last'.err = NoErr THEN 1 ELSE 0
          /\ \A i \in CallsOf(last'.calls, "Write") :
                last'.calls[i].key = last'.key
          /\ last'.err = NoErr => last'.key \in DOMAIN page'
          /\ \A k \in Keys \ {last'.key} :
                /\ k \in DOMAIN page' <=> k \in DOMAIN page
                /\ k \in DOMAIN page => page'[k] = page[k]]_vars

\* A spawn wrote the second key of the page and the first one is marked
\* deleted.
C23_Witness ==
    /\ Consumed("spawn")
    /\ last.err = NoErr
    /\ \E k \in DOMAIN page : k # last.key /\ page[k].Deleted

\* C24 - Keys are never freed: a key that holds an instance holds one after
\* every step, and a spawn that targets it fails with 'instance already
\* exists' and leaves the instance as it is, also when the instance is
\* marked deleted.
C24_KeysNeverFreed ==
    [][\A k \in DOMAIN page :
          /\ k \in DOMAIN page'
          /\ (ConsumeStep("spawn") /\ last'.key = k)
                => /\ last'.err = "instance already exists"
                   /\ ~HasCall(last'.calls, "Spawn")
                   /\ page'[k] = page[k]]_vars

\* A spawn was refused at a key whose instance is marked deleted.
C24_Witness ==
    /\ Consumed("spawn")
    /\ last.err = "instance already exists"
    /\ last.key \in DOMAIN page
    /\ page[last.key].Deleted

\* C25 - Deletion is irreversible: an instance marked deleted is marked
\* deleted after every step; a delete on it succeeds and leaves it as it
\* is.
C25_DeletionIrreversible ==
    [][\A k \in DOMAIN page :
          page[k].Deleted =>
              /\ k \in DOMAIN page'
              /\ page'[k].Deleted
              /\ (ConsumeStep("delete") /\ last'.key = k)
                    => /\ last'.err = NoErr
                       /\ page'[k] = page[k]]_vars

\* Both instances of the page are marked deleted and one of them has just
\* been invoked.
C25_Witness ==
    /\ DOMAIN page = Keys
    /\ \A k \in Keys : page[k].Deleted
    /\ Consumed("invoke")
    /\ last.err = NoErr

====
